---- MODULE Spec2Model ----
(***************************************************************************)
(* Lane-detection parameter tuner (assignment-2/task2/main.py).            *)
(*                                                                         *)
(* LaneDetector loads and downsizes an image and runs the Canny/Hough      *)
(* pipeline; InteractiveParameterTuner holds seven Tk Scale widgets and    *)
(* three preset buttons and re-runs the pipeline from the scales'          *)
(* command callback.  The Tk event loop is single threaded: a callback     *)
(* runs to completion before the next event or idle task is dispatched,    *)
(* and a Scale whose value changed invokes its command from its idle       *)
(* redisplay, not from inside set().                                       *)
(***************************************************************************)
EXTENDS Integers, Sequences, FiniteSets, TLC

VARIABLES
    image_file,      \* what cv2.imread yields for image_path: None or [width, height, scene]
    original_image,  \* LaneDetector.original_image: None or [width, height, scene, drawn]
    detector,        \* LaneDetector construction: "new", "ready" or "failed"
    call,            \* the latest detect_lanes call: None or [params, result]
    first_call,      \* history: the first detect_lanes call made on this detector
    scale,           \* value held by each Scale widget
    idle,            \* Scales whose command is scheduled, in idle-queue order
    labels,          \* text of the seven value labels
    pc,              \* where the UI thread is
    ret,             \* where update_display returns to
    run,             \* arguments of the detect_lanes run in flight, or None
    inflight,        \* number of detect_lanes runs in flight
    info_label,      \* text of info_label, or None before the first update
    canvas_image,    \* image shown on the canvas, or None
    last_good,       \* history: report and image of the latest successful run
    failures,        \* history: number of failed requests
    preset_log,      \* history: five values before and after the latest load_preset
    lp,              \* load_preset in progress: its arguments and next statement
    events           \* number of user events so far

vars == <<image_file, original_image, detector, call, first_call, scale, idle,
          labels, pc, ret, run, inflight, info_label, canvas_image, last_good,
          failures, preset_log, lp, events>>

None == [none |-> TRUE]

(***************************************************************************)
(* Bounds of the model.                                                    *)
(***************************************************************************)
MaxEvents == 2      \* user events (slider drags, button presses) per behaviour
MaxLines == 3       \* segments in an enumerated detection result
MaxFailures == 1    \* failed requests per behaviour
MaxCalls == 3       \* detect_lanes calls made directly on one detector

(***************************************************************************)
(* Arithmetic helpers.                                                     *)
(***************************************************************************)
Min(a, b) == IF a <= b THEN a ELSE b
Max(a, b) == IF a >= b THEN a ELSE b
Abs(a) == IF a < 0 THEN -a ELSE a

RECURSIVE Pow2(_)
Pow2(n) == IF n <= 0 THEN 1 ELSE 2 * Pow2(n - 1)

\* floor(log2(c / d)) for positive integers c, d
RECURSIVE FloorLog2Up(_, _, _)
FloorLog2Up(c, d, e) == IF d * Pow2(e + 1) <= c THEN FloorLog2Up(c, d, e + 1) ELSE e
RECURSIVE FloorLog2Down(_, _, _)
FloorLog2Down(c, d, e) == IF c * Pow2(e) < d THEN FloorLog2Down(c, d, e + 1) ELSE -e
FloorLog2(c, d) == IF c >= d THEN FloorLog2Up(c, d, 0) ELSE FloorLog2Down(c, d, 0)

\* (c * 2^k) mod d without leaving 32 bits
RECURSIVE Pow2Mod(_, _)
Pow2Mod(k, d) ==
    IF k = 0 THEN 1 % d
    ELSE LET h == Pow2Mod(k \div 2, d)
         IN IF k % 2 = 1 THEN (2 * ((h * h) % d)) % d ELSE (h * h) % d
ShiftMod(c, k, d) == ((c % d) * Pow2Mod(k, d)) % d

(***************************************************************************)
(* int(w * (c / d)) as Python computes it: c / d is rounded to a binary64, *)
(* the product is rounded to a binary64, int() truncates.  When w*c/d is   *)
(* not an integer the rounding errors cannot reach the next integer and    *)
(* the result is the floor.  When it is an integer x, the quotient's       *)
(* rounding error decides: rounded down far enough, the product lands on   *)
(* the binary64 below x and int() gives x - 1.                             *)
(***************************************************************************)
TruncMulScale(w, c, d) ==
    IF (w * c) % d # 0 THEN (w * c) \div d
    ELSE LET x == (w * c) \div d
             es == FloorLog2(c, d)
             r == ShiftMod(c, 52 - es, d)
             ex == FloorLog2(x, 1)
             T == Pow2(ex - es)
             below == IF x = Pow2(ex) THEN 4 ELSE 2
         IN IF r = 0 \/ 2 * r > d THEN x
            ELSE IF below * w * r > T * d THEN x - 1
            ELSE x

\* floor(sqrt(n))
RECURSIVE IsqrtBin(_, _, _)
IsqrtBin(n, lo, hi) ==
    IF lo >= hi THEN lo
    ELSE LET mid == (lo + hi + 1) \div 2
         IN IF mid * mid <= n THEN IsqrtBin(n, mid, hi) ELSE IsqrtBin(n, lo, mid - 1)
Isqrt(n) == IsqrtBin(n, 0, Min(n, 46340))

(***************************************************************************)
(* LaneDetector.__init__                                                   *)
(***************************************************************************)
\* new_width, new_height of lines 26-29; the image's own size when it fits
ScaleFactorIsWidth(width, height) == 1280 * height <= 720 * width
NewWidth(width, height) ==
    IF width > 1280 \/ height > 720
    THEN IF ScaleFactorIsWidth(width, height)
         THEN TruncMulScale(width, 1280, width)
         ELSE TruncMulScale(width, 720, height)
    ELSE width
NewHeight(width, height) ==
    IF width > 1280 \/ height > 720
    THEN IF ScaleFactorIsWidth(width, height)
         THEN TruncMulScale(height, 1280, width)
         ELSE TruncMulScale(height, 720, height)
    ELSE height

\* cv2.resize rejects an empty destination size
ResizeRaises(width, height) ==
    /\ width > 1280 \/ height > 720
    /\ NewWidth(width, height) = 0 \/ NewHeight(width, height) = 0

\* the image the constructor stores
StoredImage(file) ==
    [width |-> NewWidth(file.width, file.height),
     height |-> NewHeight(file.width, file.height),
     scene |-> file.scene,
     drawn |-> <<>>]

\* LaneDetector(image_path): ValueError when imread gives None, cv2.error
\* when the resize target is empty, otherwise the stored image
LaneDetectorInit ==
    /\ detector = "new"
    /\ IF image_file = None
       THEN /\ detector' = "failed"
            /\ original_image' = None
       ELSE IF ResizeRaises(image_file.width, image_file.height)
       THEN /\ detector' = "failed"
            /\ original_image' = [width |-> image_file.width, height |-> image_file.height,
                                  scene |-> image_file.scene, drawn |-> <<>>]
       ELSE /\ detector' = "ready"
            /\ original_image' = StoredImage(image_file)

(***************************************************************************)
(* LaneDetector.detect_lanes                                               *)
(*                                                                         *)
(* Pixel content is abstracted to the scene's candidate edge chains: each  *)
(* has its end points, the weakest and strongest gradient along it, the    *)
(* votes it collects in the accumulator and the widest gap between its     *)
(* edge pixels.  Candidates are listed in the extractor's output order.    *)
(***************************************************************************)
Candidates(scene) ==
    IF scene = "road" THEN
        << [seg |-> <<20, 95, 80, 45>>,   lo |-> 120, hi |-> 300, votes |-> 70,  gap |-> 4],
           [seg |-> <<180, 95, 130, 40>>, lo |-> 60,  hi |-> 160, votes |-> 55,  gap |-> 12],
           [seg |-> <<0, 30, 199, 30>>,   lo |-> 40,  hi |-> 90,  votes |-> 150, gap |-> 2] >>
    ELSE IF scene = "highway" THEN
        << [seg |-> <<200, 700, 600, 400>>,  lo |-> 120, hi |-> 300, votes |-> 180, gap |-> 4],
           [seg |-> <<1100, 700, 700, 400>>, lo |-> 60,  hi |-> 160, votes |-> 90,  gap |-> 12],
           [seg |-> <<0, 273, 1279, 273>>,   lo |-> 40,  hi |-> 90,  votes |-> 400, gap |-> 2],
           [seg |-> <<0, 272, 1279, 272>>,   lo |-> 40,  hi |-> 90,  votes |-> 400, gap |-> 2] >>
    ELSE IF scene = "strip" THEN
        << [seg |-> <<0, 0, 1279, 0>>, lo |-> 120, hi |-> 300, votes |-> 70, gap |-> 8] >>
    ELSE << >>

\* cv2.Canny: a chain is kept when it is above the lower threshold all along
\* and above the upper one somewhere; thresholds given in the wrong order
\* are swapped
Canny(image, canny_low, canny_high) ==
    LET low == Min(canny_low, canny_high)
        high == Max(canny_low, canny_high)
        c == Candidates(image.scene)
    IN {i \in DOMAIN c : c[i].lo > low /\ c[i].hi > high}

\* int(height * roi_top / 100), int(height * roi_bottom / 100)
RoiTopPixel(height, roi_top) == (height * roi_top) \div 100
RoiBottomPixel(height, roi_bottom) == (height * roi_bottom) \div 100

\* variant: the lower edge placed at roi_bottom_pixel
VerticesWithBottom(width, height, roi_top, roi_bottom) ==
    << <<0, RoiBottomPixel(height, roi_bottom)>>,
       <<0, RoiTopPixel(height, roi_top)>>,
       <<width, RoiTopPixel(height, roi_top)>>,
       <<width, RoiBottomPixel(height, roi_bottom)>> >>

\* the four vertices of lines 66-71
Vertices(width, height, roi_top, roi_bottom) ==
    << <<0, height>>,
       <<0, RoiTopPixel(height, roi_top)>>,
       <<width, RoiTopPixel(height, roi_top)>>,
       <<width, height>> >>

\* cv2.fillPoly of the vertices: the rows the mask covers (its columns are
\* the whole width)
RoiMask(vertices) ==
    LET ys == {vertices[i][2] : i \in DOMAIN vertices}
        top == CHOOSE y \in ys : \A z \in ys : y <= z
        bottom == CHOOSE y \in ys : \A z \in ys : y >= z
    IN [top |-> top, bottom |-> bottom]

\* the part of a chain on the rows from top down: a chain crossing row top
\* is cut there, and keeps the votes of the rows it keeps
ClipChain(chain, top) ==
    LET seg == chain.seg
        ymin == Min(seg[2], seg[4])
        ymax == Max(seg[2], seg[4])
        firstIn == seg[2] >= top
        xin == IF firstIn THEN seg[1] ELSE seg[3]
        yin == IF firstIn THEN seg[2] ELSE seg[4]
        xout == IF firstIn THEN seg[3] ELSE seg[1]
        yout == IF firstIn THEN seg[4] ELSE seg[2]
        step == (Abs(xout - xin) * (yin - top)) \div (yin - yout)
        xcut == IF xout >= xin THEN xin + step ELSE xin - step
    IN IF ymin >= top THEN chain
       ELSE [chain EXCEPT
                !.seg = IF firstIn THEN <<xin, yin, xcut, top>> ELSE <<xcut, top, xin, yin>>,
                !.votes = (chain.votes * (ymax - top + 1)) \div (ymax - ymin + 1)]

\* cv2.bitwise_and(edges, roi_mask), pixel by pixel: of every chain, the
\* part on the mask's rows
EdgesRoi(image, edges, mask) ==
    LET c == Candidates(image.scene)
        kept == {i \in edges : Max(c[i].seg[2], c[i].seg[4]) >= mask.top}
    IN [i \in kept |-> ClipChain(c[i], mask.top)]

\* the sub-sequence of 1..n whose members are in S, ascending
RECURSIVE Ascending(_, _)
Ascending(S, n) ==
    IF n = 0 THEN << >>
    ELSE IF n \in S THEN Append(Ascending(S, n - 1), n) ELSE Ascending(S, n - 1)

NoLines == None
LinesOf(segs) == [none |-> FALSE, segs |-> segs]

\* cv2.HoughLinesP: None when nothing passes, otherwise the segments in
\* extraction order
HoughLinesP(image, edges_roi, threshold, minLineLength, maxLineGap) ==
    LET good == {i \in DOMAIN edges_roi :
                    /\ edges_roi[i].votes >= threshold
                    /\ \/ Abs(edges_roi[i].seg[3] - edges_roi[i].seg[1]) >= minLineLength
                       \/ Abs(edges_roi[i].seg[4] - edges_roi[i].seg[2]) >= minLineLength
                    /\ edges_roi[i].gap <= maxLineGap}
        order == Ascending(good, Len(Candidates(image.scene)))
    IN IF good = {} THEN NoLines
       ELSE LinesOf([k \in 1..Len(order) |-> edges_roi[order[k]].seg])

\* cv2.line for every segment, then cv2.polylines of the vertices, on a copy
DrawLines(lines) ==
    IF lines = NoLines THEN << >>
    ELSE [k \in 1..Len(lines.segs) |-> [op |-> "line", at |-> lines.segs[k]]]
DrawOutline(vertices) == << [op |-> "polylines", at |-> vertices] >>

DetectLanes(image, p) ==
    LET edges == Canny(image, p.canny_low, p.canny_high)
        vertices == Vertices(image.width, image.height, p.roi_top, p.roi_bottom)
        roi_mask == RoiMask(vertices)
        edges_roi == EdgesRoi(image, edges, roi_mask)
        lines == HoughLinesP(image, edges_roi, p.hough_threshold,
                             p.hough_min_length, p.hough_max_gap)
        result_image == [image EXCEPT !.drawn = @ \o DrawLines(lines) \o DrawOutline(vertices)]
    IN [result_image |-> result_image, edges |-> edges, lines |-> lines,
        roi_mask |-> roi_mask, vertices |-> vertices]

\* variant: the drawing done on the stored image itself
ImageAfterDetectInPlace(image, result) == result.result_image

\* self.original_image after a detect_lanes call: the drawing is done on
\* result_image, a copy
ImageAfterDetect(image, result) == image

(***************************************************************************)
(* InteractiveParameterTuner: widgets                                      *)
(***************************************************************************)
\* the seven Scale widgets in creation order
ScaleNames == <<"canny_low", "canny_high", "hough_threshold", "hough_min_length",
                "hough_max_gap", "roi_top", "roi_bottom">>
Scales == {ScaleNames[i] : i \in DOMAIN ScaleNames}

\* from_ and to of each Scale, and the value create_widgets sets
ScaleFrom == [canny_low |-> 1, canny_high |-> 50, hough_threshold |-> 10,
              hough_min_length |-> 10, hough_max_gap |-> 1, roi_top |-> 0, roi_bottom |-> 0]
ScaleTo == [canny_low |-> 200, canny_high |-> 500, hough_threshold |-> 200,
            hough_min_length |-> 300, hough_max_gap |-> 50, roi_top |-> 100, roi_bottom |-> 100]
ScaleInitial == [canny_low |-> 50, canny_high |-> 281, hough_threshold |-> 66,
                 hough_min_length |-> 50, hough_max_gap |-> 10, roi_top |-> 38, roi_bottom |-> 100]

\* preset_buttons: clow, chigh, hthresh, hlen, hgap
PresetButtons == [Conservative |-> <<30, 90, 80, 100, 5>>,
                  Balanced |-> <<50, 150, 50, 50, 10>>,
                  Aggressive |-> <<20, 60, 30, 30, 20>>]
PresetNames == DOMAIN PresetButtons

\* variant: the fifth value put on the wrong Scale
LoadPresetTargetsWrong == <<"canny_low", "canny_high", "hough_threshold",
                            "hough_min_length", "roi_top">>

\* the Scale each statement of load_preset sets, in order
LoadPresetTargets == <<"canny_low", "canny_high", "hough_threshold",
                       "hough_min_length", "hough_max_gap">>

\* Scale.set: the value is brought into [from_, to]
ScaleClamp(s, v) == IF v < ScaleFrom[s] THEN ScaleFrom[s]
                    ELSE IF v > ScaleTo[s] THEN ScaleTo[s] ELSE v
ScaleSet(sc, s, v) == [sc EXCEPT ![s] = ScaleClamp(s, v)]

\* Scale.set: a changed value schedules the Scale's redisplay, which is
\* what invokes command; an unchanged value schedules nothing
InQueue(q, s) == \E i \in DOMAIN q : q[i] = s
ScaleSchedule(sc, q, s, v) ==
    IF ScaleClamp(s, v) = sc[s] \/ InQueue(q, s) THEN q ELSE Append(q, s)

\* the arguments update_display passes to detect_lanes
ReadParams(sc) == [s \in Scales |-> sc[s]]
FiveOf(p) == <<p.canny_low, p.canny_high, p.hough_threshold,
               p.hough_min_length, p.hough_max_gap>>

(***************************************************************************)
(* update_display: the report                                              *)
(***************************************************************************)
SqLen(seg) == (seg[3] - seg[1]) * (seg[3] - seg[1]) + (seg[4] - seg[2]) * (seg[4] - seg[2])
\* np.sqrt, np.mean and the format of line 270 work on binary64 numbers.
\* A binary64 number x >= 0 is written here as the whole number x * 2^80 in
\* six limbs of 20 bits, most significant first: limbs 1 and 2 hold the
\* integer part of x, limbs 3 to 6 its fraction.  No intermediate value
\* leaves 32 bits.
LimbBase == 1048576
BigZero == <<0, 0, 0, 0, 0, 0>>
BigOne == <<0, 0, 0, 0, 0, 1>>
BigInt(n) == <<0, 0, 0, 0, n \div LimbBase, n % LimbBase>>

\* carries and borrows propagated from the least significant limb
BigNorm(x) ==
    LET c5 == x[5] + (x[6] \div LimbBase)
        c4 == x[4] + (c5 \div LimbBase)
        c3 == x[3] + (c4 \div LimbBase)
        c2 == x[2] + (c3 \div LimbBase)
        c1 == x[1] + (c2 \div LimbBase)
    IN <<c1, c2 % LimbBase, c3 % LimbBase, c4 % LimbBase, c5 % LimbBase, x[6] % LimbBase>>
BigAdd(x, y) ==
    BigNorm(<<x[1] + y[1], x[2] + y[2], x[3] + y[3], x[4] + y[4], x[5] + y[5], x[6] + y[6]>>)
BigSub(x, y) ==
    BigNorm(<<x[1] - y[1], x[2] - y[2], x[3] - y[3], x[4] - y[4], x[5] - y[5], x[6] - y[6]>>)
BigMul(x, k) ==
    BigNorm(<<x[1] * k, x[2] * k, x[3] * k, x[4] * k, x[5] * k, x[6] * k>>)
BigLeq(x, y) ==
    IF x[1] # y[1] THEN x[1] < y[1]
    ELSE IF x[2] # y[2] THEN x[2] < y[2]
    ELSE IF x[3] # y[3] THEN x[3] < y[3]
    ELSE IF x[4] # y[4] THEN x[4] < y[4]
    ELSE IF x[5] # y[5] THEN x[5] < y[5]
    ELSE x[6] <= y[6]

\* the number of bits of x
BigBitLen(x) ==
    IF x[1] # 0 THEN 101 + FloorLog2(x[1], 1)
    ELSE IF x[2] # 0 THEN 81 + FloorLog2(x[2], 1)
    ELSE IF x[3] # 0 THEN 61 + FloorLog2(x[3], 1)
    ELSE IF x[4] # 0 THEN 41 + FloorLog2(x[4], 1)
    ELSE IF x[5] # 0 THEN 21 + FloorLog2(x[5], 1)
    ELSE IF x[6] # 0 THEN 1 + FloorLog2(x[6], 1)
    ELSE 0

\* x * 2^k and floor(x / 2^k)
BigLimb(x, i) == IF i \in 1..6 THEN x[i] ELSE 0
BigShiftLeft(x, k) ==
    LET a == k \div 20
        p == Pow2(k % 20)
        q == Pow2(20 - (k % 20))
        f(j) == (BigLimb(x, j + a) % q) * p + (BigLimb(x, j + a + 1) \div q)
    IN <<f(1), f(2), f(3), f(4), f(5), f(6)>>
BigShiftRight(x, k) ==
    LET a == k \div 20
        p == Pow2(k % 20)
        q == Pow2(20 - (k % 20))
        f(j) == (BigLimb(x, j - a) \div p) + (BigLimb(x, j - a - 1) % p) * q
    IN <<f(1), f(2), f(3), f(4), f(5), f(6)>>

\* floor(x / n) and whether anything is left over, for 0 < n < 2^21, by long
\* division in digits of 10 bits
DivLimb(rem, limb, n) ==
    LET t1 == rem * 1024 + (limb \div 1024)
        t2 == (t1 % n) * 1024 + (limb % 1024)
    IN <<(t1 \div n) * 1024 + (t2 \div n), t2 % n>>
BigDivSmall(x, n) ==
    LET d1 == DivLimb(0, x[1], n)
        d2 == DivLimb(d1[2], x[2], n)
        d3 == DivLimb(d2[2], x[3], n)
        d4 == DivLimb(d3[2], x[4], n)
        d5 == DivLimb(d4[2], x[5], n)
        d6 == DivLimb(d5[2], x[6], n)
    IN [q |-> <<d1[1], d2[1], d3[1], d4[1], d5[1], d6[1]>>, inexact |-> d6[2] # 0]

\* the binary64 number nearest to x (plus a little, when inexact): 53
\* significant bits, a tie going to the even one
Round53(x, inexact) ==
    LET k == BigBitLen(x) - 53
    IN IF k <= 0 THEN x
       ELSE LET q == BigShiftRight(x, k)
                rem == BigSub(x, BigShiftLeft(q, k))
                half == BigShiftLeft(BigOne, k - 1)
                up == \/ ~BigLeq(rem, half)
                      \/ rem = half /\ (inexact \/ q[6] % 2 = 1)
            IN BigShiftLeft(IF up THEN BigAdd(q, BigOne) ELSE q, k)

\* binary64 x + y and x / n
FAdd(x, y) == Round53(BigAdd(x, y), FALSE)
FDiv(x, n) ==
    LET d == BigDivSmall(x, n)
    IN Round53(d.q, d.inexact)

\* np.sqrt of a whole number, bit by bit.  The root so far and what is left
\* under it are whole numbers below 2^60 in three limbs of 20 bits.
RootNorm(h, m, l) ==
    LET m1 == m + (l \div LimbBase)
    IN <<h + (m1 \div LimbBase), m1 % LimbBase, l % LimbBase>>
RootLeq(x, y) ==
    IF x[1] # y[1] THEN x[1] < y[1]
    ELSE IF x[2] # y[2] THEN x[2] < y[2]
    ELSE x[3] <= y[3]

\* one more bit of the root: st = <<root, rest>>
SqrtBit(st) ==
    LET a == st[1]
        r4 == RootNorm(4 * st[2][1], 4 * st[2][2], 4 * st[2][3])
        t == RootNorm(4 * a[1], 4 * a[2], 4 * a[3] + 1)
    IN IF RootLeq(t, r4)
       THEN <<RootNorm(2 * a[1], 2 * a[2], 2 * a[3] + 1),
              RootNorm(r4[1] - t[1], r4[2] - t[2], r4[3] - t[3])>>
       ELSE <<RootNorm(2 * a[1], 2 * a[2], 2 * a[3]), r4>>
RECURSIVE SqrtBits(_, _)
SqrtBits(st, k) ==
    IF k = 0 THEN st[1]
    ELSE LET next == SqrtBit(st)
         IN IF next[2][1] >= 0 THEN SqrtBits(next, k - 1) ELSE st[1]

\* the largest j with n * 4^j below 2^31, for n > 0
RECURSIVE Widen(_, _)
Widen(n, j) == IF n < 536870912 THEN Widen(4 * n, j + 1) ELSE j

\* np.sqrt of a whole number n: the root to 54 bits, rounded to 53 (the
\* root of a whole number is never half way between two binary64 numbers).
\* The first bits are those of floor(sqrt(n * 4^j)).
NpSqrt(n) ==
    IF n = 0 THEN BigZero
    ELSE LET j == Widen(n, 0)
             w == n * Pow2(2 * j)
             a0 == Isqrt(w)
             k == FloorLog2(a0, 1)
             root == SqrtBits(<< <<0, 0, a0>>, <<0, 0, w - a0 * a0>> >>, 53 - k)
             m == RootNorm(root[1], root[2], root[3] + 1)
         IN BigShiftLeft(BigShiftRight(<<0, 0, 0, m[1], m[2], m[3]>>, 1), k - j + 28)

\* the list np.mean is given: np.sqrt((x2-x1)**2 + (y2-y1)**2) per segment
Lengths(segs) == [i \in DOMAIN segs |-> NpSqrt(SqLen(segs[i]))]

\* res += a[i] for i = from, from + step, ... up to last
RECURSIVE Accumulate(_, _, _, _, _)
Accumulate(res, a, from, step, last) ==
    IF from > last THEN res
    ELSE LET next == FAdd(res, a[from])
         IN IF BigLeq(BigZero, next) THEN Accumulate(next, a, from + step, step, last)
            ELSE res

\* numpy's sum of a[off + 1 .. off + n]: in order below 8 numbers, in eight
\* lanes up to 128, in halves above
RECURSIVE PairwiseSum(_, _, _)
PairwiseSum(a, off, n) ==
    IF n < 8 THEN Accumulate(BigZero, a, off + 1, 1, off + n)
    ELSE IF n <= 128
    THEN LET full == n - (n % 8)
             r(j) == Accumulate(a[off + j], a, off + j + 8, 8, off + full)
             res == FAdd(FAdd(FAdd(r(1), r(2)), FAdd(r(3), r(4))),
                         FAdd(FAdd(r(5), r(6)), FAdd(r(7), r(8))))
         IN Accumulate(res, a, off + full + 1, 1, off + n)
    ELSE LET n2 == (n \div 2) - ((n \div 2) % 8)
         IN FAdd(PairwiseSum(a, off, n2), PairwiseSum(a, off + n2, n - n2))

\* the sum np.mean takes, and np.mean
SumLen(segs) == PairwiseSum(Lengths(segs), 0, Len(segs))
NpMean(segs) == FDiv(SumLen(segs), Len(segs))

\* f"{x:.1f}": the tenth nearest to x, a tie going to the even one; given
\* in tenths
FormatTenths(x) ==
    LET t == BigMul(x, 10)
        whole == t[1] * LimbBase + t[2]
        up == \/ t[3] > 524288
              \/ t[3] = 524288 /\ (<<t[4], t[5], t[6]>> # <<0, 0, 0>> \/ whole % 2 = 1)
    IN IF up THEN whole + 1 ELSE whole

\* the average of line 270 as shown, in tenths
MeanTenths(segs) == FormatTenths(NpMean(segs))

\* num_lines of line 265
NumLines(lines) == IF lines # None THEN Len(lines.segs) ELSE 0

\* variant: the average always shown, zero without lines
InfoTextZeroAvg(lines) ==
    [lines_detected |-> NumLines(lines),
     avg_line_length |-> IF lines # None /\ Len(lines.segs) > 0
                         THEN <<MeanTenths(lines.segs)>> ELSE <<0>>]

\* info_text of lines 268-270: the count, and the average only when there
\* is a line
InfoText(lines) ==
    [lines_detected |-> NumLines(lines),
     avg_line_length |-> IF lines # None /\ Len(lines.segs) > 0
                         THEN <<MeanTenths(lines.segs)>> ELSE << >>]

\* what display_image yields when cv2.resize raises
CvError == [error |-> "cv2.error"]

\* new_width, new_height of lines 287-290:
\* scale = min(canvas_width / w, canvas_height / h), int(w * scale),
\* int(h * scale)
DisplaySize(w, h, canvas_width, canvas_height) ==
    IF canvas_width * h <= canvas_height * w
    THEN <<TruncMulScale(w, canvas_width, w), TruncMulScale(h, canvas_width, w)>>
    ELSE <<TruncMulScale(w, canvas_height, h), TruncMulScale(h, canvas_height, h)>>

\* display_image: the image put on the canvas, resized to fit once the
\* canvas has a size; cv2.resize raises when the new size has a zero side,
\* and then nothing is put on the canvas
DisplayImage(image, canvas_width, canvas_height) ==
    IF canvas_width > 1 /\ canvas_height > 1
    THEN LET size == DisplaySize(image.width, image.height, canvas_width, canvas_height)
         IN IF size[1] = 0 \/ size[2] = 0
            THEN CvError
            ELSE [image EXCEPT !.width = size[1], !.height = size[2]]
    ELSE image

\* winfo_width, winfo_height of the canvas: 1 x 1 until the window is drawn
\* (the call made by __init__), afterwards what the 1400x800 window leaves
\* beside the control panel
CanvasSize(from) == IF from = "ctor" THEN <<1, 1>> ELSE <<1130, 780>>

(***************************************************************************)
(* InteractiveParameterTuner: the UI thread                                *)
(***************************************************************************)
\* variants: events dispatched from inside a running update_display, and
\* from inside load_preset
EventLoopReentrant == pc \in {"mainloop", "update_display"}
EventLoopDuringPreset == pc \in {"mainloop", "load_preset"}

\* root.mainloop() dispatches an event or an idle task only between callbacks
EventLoopIdle == pc = "mainloop"

\* InteractiveParameterTuner.__init__ up to create_widgets: an exception of
\* LaneDetector leaves __init__ and main
TunerInit ==
    /\ pc = "main"
    /\ LaneDetectorInit
    /\ IF detector' = "failed"
       THEN /\ pc' = "terminated"
            /\ failures' = failures + 1
            /\ UNCHANGED <<scale, idle, labels>>
       ELSE /\ pc' = "ctor"
            /\ scale' = ScaleInitial
            /\ labels' = ScaleInitial
            /\ idle' = ScaleNames
            /\ UNCHANGED failures
    /\ UNCHANGED <<image_file, call, first_call, ret, run, inflight, info_label,
                   canvas_image, last_good, preset_log, lp, events>>

\* update_display, lines 246-263: the labels are set and detect_lanes is
\* called with the Scales' values
UpdateDisplayBegin ==
    /\ labels' = ReadParams(scale)
    /\ run' = ReadParams(scale)
    /\ inflight' = inflight + 1
    /\ ret' = pc
    /\ pc' = "update_display"
    /\ UNCHANGED <<image_file, original_image, detector, call, first_call, scale,
                   info_label, canvas_image, last_good, failures, preset_log, lp, events>>

\* self.update_display() of __init__
CtorUpdateDisplay ==
    /\ pc = "ctor"
    /\ UpdateDisplayBegin
    /\ UNCHANGED idle

\* a Scale's idle redisplay invokes command=lambda x: self.update_display()
ScaleCommand ==
    /\ EventLoopIdle
    /\ idle # << >>
    /\ idle' = Tail(idle)
    /\ UpdateDisplayBegin

\* where the UI thread continues after update_display
AfterUpdate(from) == IF from = "ctor" THEN "mainloop" ELSE from

\* update_display, lines 255-275: detect_lanes returns, the report and the
\* image are shown
UpdateDisplayEnd ==
    /\ pc = "update_display"
    /\ LET size == CanvasSize(ret)
           result == DetectLanes(original_image, run)
           shown == DisplayImage(result.result_image, size[1], size[2])
       IN /\ call' = [params |-> run, result |-> result]
          /\ first_call' = IF first_call = None THEN call' ELSE first_call
          /\ original_image' = ImageAfterDetect(original_image, result)
          /\ shown # CvError
          /\ info_label' = InfoText(result.lines)
          /\ canvas_image' = shown
          /\ last_good' = [info |-> info_label', image |-> shown]
    /\ inflight' = inflight - 1
    /\ run' = None
    /\ pc' = AfterUpdate(ret)
    /\ UNCHANGED <<image_file, detector, scale, idle, labels, ret, failures,
                   preset_log, lp, events>>

\* update_display, lines 255-275, when display_image raises: detect_lanes
\* has returned and info_label is set at line 272, the canvas keeps the
\* image it had; in __init__ the exception leaves main, in a Tk callback it
\* is reported and the event loop goes on
UpdateDisplayShowRaise ==
    /\ pc = "update_display"
    /\ LET size == CanvasSize(ret)
           result == DetectLanes(original_image, run)
       IN /\ DisplayImage(result.result_image, size[1], size[2]) = CvError
          /\ call' = [params |-> run, result |-> result]
          /\ first_call' = IF first_call = None THEN call' ELSE first_call
          /\ original_image' = ImageAfterDetect(original_image, result)
          /\ info_label' = InfoText(result.lines)
    /\ failures' = failures + 1
    /\ inflight' = inflight - 1
    /\ run' = None
    /\ pc' = IF ret = "ctor" THEN "terminated" ELSE ret
    /\ UNCHANGED <<image_file, detector, scale, idle, labels, ret, canvas_image,
                   last_good, preset_log, lp, events>>

\* detect_lanes raises: in __init__ the exception leaves main, in a Tk
\* callback it is reported and the event loop goes on
UpdateDisplayRaise ==
    /\ pc = "update_display"
    /\ failures < MaxFailures
    /\ failures' = failures + 1
    /\ inflight' = inflight - 1
    /\ run' = None
    /\ pc' = IF ret = "ctor" THEN "terminated" ELSE ret
    /\ UNCHANGED <<image_file, original_image, detector, call, first_call, scale, idle,
                   labels, ret, info_label, canvas_image, last_good, preset_log, lp, events>>

\* the positions a drag leaves a slider at
DragValues(s) == {ScaleFrom[s], ScaleTo[s]}

\* the user drags a slider: the Scale takes the value and schedules command
SliderDrag ==
    /\ EventLoopIdle
    /\ events < MaxEvents
    /\ \E s \in Scales : \E v \in DragValues(s) :
          /\ scale' = ScaleSet(scale, s, v)
          /\ idle' = ScaleSchedule(scale, idle, s, v)
    /\ events' = events + 1
    /\ preset_log' = None
    /\ UNCHANGED <<image_file, original_image, detector, call, first_call, labels, pc,
                   ret, run, inflight, info_label, canvas_image, last_good, failures, lp>>

\* a preset button is pressed: its command calls load_preset
PressPreset ==
    /\ EventLoopIdle
    /\ events < MaxEvents
    /\ \E name \in PresetNames :
          /\ lp' = [args |-> PresetButtons[name], next |-> 1]
          /\ preset_log' = [name |-> name, old |-> FiveOf(scale),
                            roi |-> <<scale.roi_top, scale.roi_bottom>>]
    /\ events' = events + 1
    /\ pc' = "load_preset"
    /\ UNCHANGED <<image_file, original_image, detector, call, first_call, scale, idle,
                   labels, ret, run, inflight, info_label, canvas_image, last_good, failures>>

\* load_preset: its next set() statement
LoadPresetStep ==
    /\ pc = "load_preset"
    /\ LET s == LoadPresetTargets[lp.next]
           v == lp.args[lp.next]
       IN /\ scale' = ScaleSet(scale, s, v)
          /\ idle' = ScaleSchedule(scale, idle, s, v)
    /\ IF lp.next = Len(LoadPresetTargets)
       THEN lp' = None /\ pc' = "mainloop"
       ELSE lp' = [lp EXCEPT !.next = @ + 1] /\ pc' = pc
    /\ UNCHANGED <<image_file, original_image, detector, call, first_call, labels, ret,
                   run, inflight, info_label, canvas_image, last_good, failures,
                   preset_log, events>>

\* main(): the first image file, readable or not
ImageFiles == {None, [width |-> 200, height |-> 100, scene |-> "road"],
               [width |-> 1280, height |-> 1, scene |-> "strip"]}

Init ==
    /\ image_file \in ImageFiles
    /\ original_image = None
    /\ detector = "new"
    /\ call = None
    /\ first_call = None
    /\ scale = None
    /\ idle = << >>
    /\ labels = None
    /\ pc = "main"
    /\ ret = "main"
    /\ run = None
    /\ inflight = 0
    /\ info_label = None
    /\ canvas_image = None
    /\ last_good = [info |-> None, image |-> None]
    /\ failures = 0
    /\ preset_log = None
    /\ lp = None
    /\ events = 0

Next ==
    \/ TunerInit
    \/ CtorUpdateDisplay
    \/ ScaleCommand
    \/ UpdateDisplayEnd
    \/ UpdateDisplayShowRaise
    \/ UpdateDisplayRaise
    \/ SliderDrag
    \/ PressPreset
    \/ LoadPresetStep

Spec == Init /\ [][Next]_vars

(***************************************************************************)
(* Loading alone: LaneDetector(image_path) over a range of image sizes     *)
(***************************************************************************)
LoadWidths == {1, 105, 640, 1050, 1280, 1281, 1366, 1920, 2560, 4000}
LoadHeights == {1, 480, 720, 721, 768, 1080, 1400, 1440, 3000}
LoadFiles == {None} \cup {[width |-> w, height |-> h, scene |-> "blank"] :
                            w \in LoadWidths, h \in LoadHeights}

ControllerIdle ==
    /\ scale = None
    /\ idle = << >>
    /\ labels = None
    /\ ret = "main"
    /\ run = None
    /\ inflight = 0
    /\ info_label = None
    /\ canvas_image = None
    /\ last_good = [info |-> None, image |-> None]
    /\ failures = 0
    /\ preset_log = None
    /\ lp = None
    /\ events = 0

InitLoad ==
    /\ image_file \in LoadFiles
    /\ original_image = None
    /\ detector = "new"
    /\ call = None
    /\ first_call = None
    /\ pc = "main"
    /\ ControllerIdle

LoadImage ==
    /\ LaneDetectorInit
    /\ UNCHANGED <<image_file, call, first_call, scale, idle, labels, pc, ret, run,
                   inflight, info_label, canvas_image, last_good, failures,
                   preset_log, lp, events>>

NextLoad == LoadImage

SpecLoad == InitLoad /\ [][NextLoad]_vars

(***************************************************************************)
(* The pipeline alone: detect_lanes called on a loaded detector            *)
(***************************************************************************)
DetectFiles == {[width |-> 50, height |-> 50, scene |-> "blank"],
                [width |-> 200, height |-> 100, scene |-> "road"],
                [width |-> 1280, height |-> 720, scene |-> "highway"]}

\* the arguments tried: slider values, preset values and values beyond the
\* sliders' ranges, which detect_lanes accepts as they are
ParamSpace ==
    [canny_low : {20, 50}, canny_high : {60, 281}, hough_threshold : {30, 1000},
     hough_min_length : {30}, hough_max_gap : {5, 20}, roi_top : {0, 38, 50, 100},
     roi_bottom : {0, 100}]

InitDetect ==
    /\ image_file \in DetectFiles
    /\ original_image = StoredImage(image_file)
    /\ detector = "ready"
    /\ call = None
    /\ first_call = None
    /\ pc = "api"
    /\ ControllerIdle

DetectCall ==
    /\ detector = "ready"
    /\ pc = "api"
    /\ events < MaxCalls
    /\ \E p \in ParamSpace :
          LET result == DetectLanes(original_image, p)
          IN /\ call' = [params |-> p, result |-> result]
             /\ first_call' = IF first_call = None THEN call' ELSE first_call
             /\ original_image' = ImageAfterDetect(original_image, result)
    /\ events' = events + 1
    /\ UNCHANGED <<image_file, detector, scale, idle, labels, pc, ret, run, inflight,
                   info_label, canvas_image, last_good, failures, preset_log, lp>>

NextDetect == DetectCall

SpecDetect == InitDetect /\ [][NextDetect]_vars

(***************************************************************************)
(* The report alone: lines 265-272 applied to a detection result           *)
(***************************************************************************)
SegmentPool == {<<0, 0, 3, 4>>, <<0, 0, 0, 10>>, <<0, 0, 1, 1>>, <<10, 20, 40, 60>>,
                <<0, 0, 7, 0>>, <<2, 9, 11, 3>>, <<1, 1, 2, 3>>, <<3, 0, 0, 3>>,
                <<0, 0, 8, 325>>, <<0, 0, 152, 433>>, <<0, 0, 175, 717>>}

\* what HoughLinesP can return: None, or one segment or more
ReportLines ==
    {None} \cup {LinesOf(segs) : segs \in UNION {[1..n -> SegmentPool] : n \in 1..MaxLines}}

InitStats ==
    /\ image_file = [width |-> 50, height |-> 50, scene |-> "blank"]
    /\ original_image = StoredImage(image_file)
    /\ detector = "ready"
    /\ \E lines \in ReportLines :
          call = [params |-> ReadParams(ScaleInitial), result |-> [lines |-> lines]]
    /\ first_call = None
    /\ pc = "report"
    /\ ControllerIdle

ReportStats ==
    /\ pc = "report"
    /\ info_label' = InfoText(call.result.lines)
    /\ pc' = "reported"
    /\ UNCHANGED <<image_file, original_image, detector, call, first_call, scale, idle,
                   labels, ret, run, inflight, canvas_image, last_good, failures,
                   preset_log, lp, events>>

NextStats == ReportStats

SpecStats == InitStats /\ [][NextStats]_vars

(***************************************************************************)
(* Properties                                                              *)
(***************************************************************************)

\* C1: at most one detect_lanes run is in flight at any time, and no Scale
\* changes its value while a run is in flight.
C1_AtMostOneRun ==
    /\ inflight <= 1
    /\ [][inflight' <= 1 /\ (inflight >= 1 => scale' = scale)]_vars
C1_Witness ==
    /\ inflight = 1
    /\ ret = "mainloop"
    /\ idle # << >>
    /\ events > 0

\* C2: once load_preset has completed, the five detection Scales hold the
\* pressed preset's literal values and roi_top, roi_bottom hold what they
\* held before.
C2_PresetValues ==
    (preset_log # None /\ pc # "load_preset") =>
        /\ preset_log.name = "Conservative" => FiveOf(scale) = <<30, 90, 80, 100, 5>>
        /\ preset_log.name = "Balanced" => FiveOf(scale) = <<50, 150, 50, 50, 10>>
        /\ preset_log.name = "Aggressive" => FiveOf(scale) = <<20, 60, 30, 30, 20>>
        /\ scale.roi_top = preset_log.roi[1]
        /\ scale.roi_bottom = preset_log.roi[2]
C2_Witness ==
    /\ preset_log # None
    /\ pc = "mainloop"
    /\ preset_log.name = "Aggressive"
    /\ FiveOf(scale) = <<20, 60, 30, 30, 20>>
    /\ preset_log.old # FiveOf(scale)
    /\ scale.roi_top = 0

\* C3: no detect_lanes run is in flight while load_preset executes, and a
\* run started after load_preset began gets either the five values from
\* before the preset or the preset's five values, never a mixture.
C3_PresetAtomic ==
    /\ pc = "load_preset" => inflight = 0
    /\ (run # None /\ preset_log # None) =>
          FiveOf(run) \in {preset_log.old, PresetButtons[preset_log.name]}
C3_Witness ==
    /\ run # None
    /\ preset_log # None
    /\ FiveOf(run) = PresetButtons[preset_log.name]
    /\ preset_log.old # FiveOf(run)
    /\ idle # << >>

\* C4 as stated: when no segment is found, detect_lanes returns an empty
\* sequence for lines, not None.
C4_EmptySequence ==
    (call # None /\ NumLines(call.result.lines) = 0) =>
        (call.result.lines # None /\ call.result.lines.segs = << >>)

\* C5: detect_lanes leaves the stored image as the constructor stored it,
\* and a call with the parameters of the first call returns the first
\* call's lines and annotated image, whatever was called in between.
C5_Deterministic ==
    /\ detector = "ready" => original_image = StoredImage(image_file)
    /\ (call # None /\ call.params = first_call.params) =>
          /\ call.result.lines = first_call.result.lines
          /\ call.result.result_image = first_call.result.result_image
C5_Witness ==
    /\ events >= 3
    /\ call # None
    /\ call.params = first_call.params
    /\ call.result.lines # None

\* C6 as stated: an oversized image is stored within 1280 x 720 with each
\* dimension less than 1 away from the original dimension times
\* min(1280/width, 720/height); other images keep their dimensions.
C6_WithinOnePixel ==
    detector = "ready" =>
        LET W == image_file.width
            H == image_file.height
            c == IF 1280 * H <= 720 * W THEN 1280 ELSE 720
            d == IF 1280 * H <= 720 * W THEN W ELSE H
            nw == original_image.width
            nh == original_image.height
        IN IF W > 1280 \/ H > 720
           THEN /\ nw <= 1280
                /\ nh <= 720
                /\ Abs(nw * d - W * c) < d
                /\ Abs(nh * d - H * c) < d
           ELSE nw = W /\ nh = H

\* C7: the mask and the outline are built from the vertices (0,H),
\* (0,floor(H*roi_top/100)), (W,floor(H*roi_top/100)), (W,H), and a call
\* differing only in roi_bottom gives the same mask, lines and image.
C7_RoiTopOnly ==
    call # None =>
        LET W == original_image.width
            H == original_image.height
            p == call.params
            top == (H * p.roi_top) \div 100
            vs == << <<0, H>>, <<0, top>>, <<W, top>>, <<W, H>> >>
            drawn == call.result.result_image.drawn
        IN /\ call.result.vertices = vs
           /\ call.result.roi_mask = [top |-> top, bottom |-> H]
           /\ drawn[Len(drawn)] = [op |-> "polylines", at |-> vs]
           /\ (H = 720 /\ p.roi_top = 38) => top = 273
           /\ \A b \in 0..100 :
                 LET other == DetectLanes(original_image, [p EXCEPT !.roi_bottom = b])
                 IN /\ other.roi_mask = call.result.roi_mask
                    /\ other.lines = call.result.lines
                    /\ other.result_image = call.result.result_image
C7_Witness ==
    /\ call # None
    /\ original_image.height = 720
    /\ call.params.roi_top = 38
    /\ call.params.roi_bottom = 0
    /\ call.result.vertices[2] = <<0, 273>>
    /\ call.result.lines # None

\* floor(100 * sqrt(n)): the whole part of the root and two more decimals
Hundredths(n) ==
    LET a == Isqrt(n)
        d == CHOOSE d \in 0..99 :
                 /\ 200 * a * d + d * d <= 10000 * (n - a * a)
                 /\ d = 99 \/ 200 * a * (d + 1) + (d + 1) * (d + 1) > 10000 * (n - a * a)
    IN 100 * a + d

\* the lengths of the segments in hundredths, each rounded down
RECURSIVE SumHundredths(_)
SumHundredths(segs) ==
    IF segs = << >> THEN 0
    ELSE Hundredths(SqLen(Head(segs))) + SumHundredths(Tail(segs))

\* C8: the report gives the number of segments, and gives the mean segment
\* length (to the nearest tenth; 7.5 for (0,0,3,4) and (0,0,0,10)) exactly
\* when that number is greater than 0.
C8_Report ==
    info_label # None =>
        LET lines == call.result.lines
            n == IF lines = None THEN 0 ELSE Len(lines.segs)
        IN /\ info_label.lines_detected = n
           /\ (info_label.avg_line_length # << >>) <=> (n > 0)
           /\ n > 0 =>
                 LET t == info_label.avg_line_length[1]
                     S == SumHundredths(lines.segs)
                 IN /\ (10 * t - 5) * n <= S + n
                    /\ S <= (10 * t + 5) * n
           /\ lines = LinesOf(<< <<0, 0, 3, 4>>, <<0, 0, 0, 10>> >>) =>
                 info_label.avg_line_length = <<75>>
C8_Witness ==
    /\ pc = "reported"
    /\ call.result.lines = LinesOf(<< <<0, 0, 3, 4>>, <<0, 0, 0, 10>> >>)
    /\ info_label = [lines_detected |-> 2, avg_line_length |-> <<75>>]

\* C9 as stated: the Scales always hold roi_top < roi_bottom, both within
\* 0..100, and so does every detect_lanes invocation.
C9_RoiOrdered ==
    /\ scale # None =>
          /\ scale.roi_top \in 0..100
          /\ scale.roi_bottom \in 0..100
          /\ scale.roi_top < scale.roi_bottom
    /\ run # None => run.roi_top < run.roi_bottom

\* C10 as stated: after a failed request the controller is still there and
\* shows the report and the image of the latest successful detection.
C10_KeepsLastGood ==
    failures > 0 =>
        /\ pc # "terminated"
        /\ info_label = last_good.info
        /\ canvas_image = last_good.image

\* C11 as stated: an oversized image is stored with width*s and height*s,
\* s = min(1280/width, 720/height), each rounded to the nearest integer,
\* and the stored size is a function of the input size.
C11_RoundedToNearest ==
    (detector = "ready" /\ (image_file.width > 1280 \/ image_file.height > 720)) =>
        LET W == image_file.width
            H == image_file.height
            c == IF 1280 * H <= 720 * W THEN 1280 ELSE 720
            d == IF 1280 * H <= 720 * W THEN W ELSE H
        IN /\ 2 * Abs(original_image.width * d - W * c) <= d
           /\ 2 * Abs(original_image.height * d - H * c) <= d
           /\ original_image.width = StoredImage(image_file).width
           /\ original_image.height = StoredImage(image_file).height

====
